---- MODULE Spec2Model ----
(***************************************************************************)
(* Model of minecraft_gui.py: the warm session worker started by           *)
(* CacheWarmerGUI._warm_selected, the Stop button, warm_file's chunked     *)
(* read loop, the launch action, the file enumerator iter_files and the    *)
(* instance lister list_instances.                                         *)
(*                                                                         *)
(* Sizes, read positions and budgets are counted in one unit (8 MiB), so   *)
(* that warm_file's 16 MiB chunk is two units.  A file name is the         *)
(* sequence of its dot-separated components ("x.mixins.json" is            *)
(* <<"x","mixins","json">>, ".git" is <<"","git">>), and a path is the     *)
(* sequence of its segments.                                               *)
(***************************************************************************)
EXTENDS Integers, Sequences, FiniteSets, TLC

\* ------------------------------------------------------------ bounds
\* Largest number of files one target directory holds.
MaxFiles == 2
\* Largest budget (in units) the user enters.
MaxBudget == 4
\* Largest number of failing file-system calls (stat, open, read) in a session.
MaxFaults == 1
\* Largest number of entries of the tree that iter_files walks.
MaxEntries == 3
\* Largest length of a pattern sequence other than DEFAULT_PATTERNS.
MaxPatterns == 2
\* Largest number of matches that rglob reports a second time in one call.
MaxRepeats == 1
\* Largest number of children of the root that list_instances lists.
MaxChildren == 3
\* Largest number of sessions started one after the other.
MaxSessions == 2
\* Largest number of files of the target whose ranking is checked.
MaxRank == 2

\* ------------------------------------------------------------ helpers
Min(a, b) == IF a <= b THEN a ELSE b

Max(a, b) == IF a >= b THEN a ELSE b

Last(s) == s[Len(s)]

RECURSIVE SumLen(_, _)
SumLen(f, s) == IF s = <<>> THEN 0 ELSE Len(f[Head(s)]) + SumLen(f, Tail(s))

\* The increasing sequence of the elements of a set of numbers
\* (Listbox.curselection returns the selected indices in increasing order).
RECURSIVE Ascending(_)
Ascending(S) ==
    IF S = {} THEN <<>>
    ELSE LET m == CHOOSE x \in S : \A y \in S : x <= y
         IN  <<m>> \o Ascending(S \ {m})

\* All sequences without repetition, of length at most n, over the set S.
RECURSIVE DistinctSeqs(_, _)
DistinctSeqs(S, n) ==
    IF n = 0 THEN {<<>>}
    ELSE LET shorter == DistinctSeqs(S, n - 1)
         IN  shorter \cup
             UNION {{Append(s, x) : x \in S \ {s[j] : j \in 1 .. Len(s)}} :
                    s \in {q \in shorter : Len(q) = n - 1}}

\* ------------------------------------------------------------ files
\* The files a target directory may hold, each a name and a size: the first
\* MaxFiles of these.
PoolFile(k) ==
    CASE k = 1 -> [name |-> <<"c", "png">>, size |-> 3]
      [] k = 2 -> [name |-> <<"a", "jar">>, size |-> 1]
      [] k = 3 -> [name |-> <<"B", "JAR">>, size |-> 3]
      [] OTHER -> [name |-> <<"d", "toml">>, size |-> 2]

FilePool == {PoolFile(k) : k \in 1 .. Min(MaxFiles, 4)}

\* str.lower() on one component of a name.
Lower(c) ==
    CASE c = "JAR" -> "jar"
      [] c = "B" -> "b"
      [] c = "PNG" -> "png"
      [] OTHER -> c

\* name.endswith("." + ext), name being p.name.lower().
EndsWith(name, ext) == Len(name) >= 2 /\ Lower(Last(name)) = ext

\* lines 467-477
weight(p) ==
    IF EndsWith(p.name, "jar") THEN 0
    ELSE IF EndsWith(p.name, "zip") THEN 1
    ELSE IF \E e \in {"json", "toml", "cfg", "ini"} : EndsWith(p.name, e) THEN 2
    ELSE IF \E e \in {"png", "ogg", "wav"} : EndsWith(p.name, e) THEN 3
    ELSE 4

\* A sort key whose second part is the size itself: smaller files first.
KeyLessSizeAscending(a, b) ==
    \/ weight(a) < weight(b)
    \/ weight(a) = weight(b) /\ a.size < b.size

\* The sort key of line 479 compared as Python compares tuples.
KeyLess(a, b) ==
    \/ weight(a) < weight(b)
    \/ weight(a) = weight(b) /\ (0 - a.size) < (0 - b.size)

\* An insertion that puts x before the first element whose key is not
\* smaller: a sort that is not stable.
RECURSIVE InsertBeforeEqual(_, _)
InsertBeforeEqual(s, x) ==
    IF s = <<>> THEN <<x>>
    ELSE IF ~KeyLess(Head(s), x) THEN <<x>> \o s
    ELSE <<Head(s)>> \o InsertBeforeEqual(Tail(s), x)

\* list.sort is stable: x goes before the first element whose key is greater.
RECURSIVE InsertByKey(_, _)
InsertByKey(s, x) ==
    IF s = <<>> THEN <<x>>
    ELSE IF KeyLess(x, Head(s)) THEN <<x>> \o s
    ELSE <<Head(s)>> \o InsertByKey(Tail(s), x)

RECURSIVE SortFiles(_)
SortFiles(s) ==
    IF s = <<>> THEN <<>>
    ELSE InsertByKey(SortFiles(SubSeq(s, 1, Len(s) - 1)), Last(s))

\* ------------------------------------------------------------ state
VARIABLES
    warm_btn,        \* state of the "Warm Selected" button
    stop_btn,        \* state of the "Stop" button
    has_stop_flag,   \* hasattr(self, "_stop_flag")
    stop_flag,       \* self._stop_flag
    pendingDisable,  \* exiting workers that have still to run line 513
    targets,         \* the selected instance directories, in list order
    budget,          \* int(limit_gb * 1024 * 1024 * 1024), in units
    dry,             \* dry_run_var at the start of the session
    fs,              \* what iter_files yields for each instance directory
    pc,              \* the worker's position
    ti,              \* index into targets of the target being processed
    files,           \* the ranked files of the current target
    fi,              \* the index i of the current file (from 1)
    warmed,          \* bytes warmed in the current target
    warmed_total,    \* bytes warmed in the session
    progress_max,    \* self.progress["maximum"]
    progress_value,  \* self.progress["value"]
    progressed,      \* the worker's progress counter
    rtotal,          \* warm_file's local total
    log,             \* the lines given to _append_log, as events
    opens,           \* history: the files opened for reading, <<target, i>>
    completed,       \* history: opened files of the current target whose read ended
    stopAt,          \* history: the target, its ended reads, and whether a file
                     \* was past its checks, when the flag was set
    faults,          \* number of file-system calls that failed in the session
    order,           \* history: the enumerations, opens and closes, in order
    sessions,        \* history: number of sessions started so far
    launched,        \* history: what the session's call of _maybe_launch did
    lchildren,       \* list_instances: the children of the root, sorted
    lidx,            \* list_instances: index of the child being probed
    instances,       \* list_instances: the list instances
    lpc,             \* list_instances: position of the call
    eroot,           \* iter_files: the root argument, a path
    etree,           \* iter_files: the entries below the root
    patterns,        \* iter_files: the patterns argument
    pidx,            \* iter_files: index of the pattern being globbed
    pending,         \* iter_files: matches rglob has still to report
    repeats,         \* iter_files: matches reported a second time so far
    seen,            \* iter_files: the set seen
    yielded,         \* iter_files: the paths yielded, in order
    epc              \* iter_files: position of the generator

vars == << warm_btn, stop_btn, has_stop_flag, stop_flag, pendingDisable,
           targets, budget, dry, fs, pc, ti, files, fi, warmed, warmed_total,
           progress_max, progress_value, progressed, rtotal, log, opens,
           completed, stopAt, faults, order, sessions, launched, lchildren, lidx,
           instances, lpc, eroot, etree, patterns, pidx, pending, repeats,
           seen, yielded, epc >>

enumVars == << eroot, etree, patterns, pidx, pending, repeats, seen, yielded, epc >>

sessionVars == << warm_btn, stop_btn, has_stop_flag, stop_flag, pendingDisable,
                  targets, budget, dry, fs, pc, ti, files, fi, warmed,
                  warmed_total, progress_max, progress_value, progressed,
                  rtotal, log, opens, completed, stopAt, faults, order,
                  sessions, launched >>

listVars == << lchildren, lidx, instances, lpc >>

uiVars == << warm_btn, stop_btn, has_stop_flag, stop_flag, pendingDisable >>

inputVars == << targets, budget, dry, fs, sessions >>

\* A file-system call may fail while the session's bound allows it.
MayFail == faults < MaxFaults

progressVars == << progress_max, progress_value, progressed >>

\* warm_file's chunk (line 66): 16 MiB, two units.
CHUNK == 2

\* The rows of the instance list box (row i is key i-1 of _instance_map).
Instances == {1, 2}

Budgets == 0 .. MaxBudget

\* What iter_files may report for a target: any of the pool's files, in the
\* order of the pool, which is not the rank order (the pool's files have
\* different sort keys, so the ranked list does not depend on this order;
\* RankLists below holds the orders and the ties that the rank is checked on).
FileLists ==
    { [j \in 1 .. Cardinality(I) |-> PoolFile(Ascending(I)[j])] :
        I \in SUBSET (1 .. Min(MaxFiles, 4)) }

\* The files the rank is checked on: two with equal sort keys, a name in
\* upper case, and one of every class of lines 469-477.
RankPool ==
    { [name |-> <<"a", "jar">>, size |-> 1],
      [name |-> <<"b", "jar">>, size |-> 1],
      [name |-> <<"B", "JAR">>, size |-> 3],
      [name |-> <<"c", "png">>, size |-> 3],
      [name |-> <<"d", "toml">>, size |-> 2],
      [name |-> <<"z", "zip">>, size |-> 1],
      [name |-> <<"e", "txt">>, size |-> 2] }

\* What iter_files may report for the target of a session that the rank is
\* checked on: the files in any order.
RankLists == DistinctSeqs(RankPool, MaxRank)

NoStop == [set |-> FALSE, t |-> 0, k |-> 0, at |-> "between"]

\* One line of the log: the kind of line, the target, the index i and the
\* path of the file it is about, and the number it prints.
Event(e, t, i, f, n) == [ev |-> e, t |-> t, i |-> i, f |-> f, n |-> n]

NoFile == <<>>

\* One entry of the history order: a target enumerated by the counting pass
\* ("count", line 454) or by the main loop ("enum", line 465), or file i of
\* the target opened ("open") or closed ("close") by warm_file.
Did(op, t, i) == [op |-> op, t |-> t, i |-> i]

\* Number of files of target t opened so far.
OpensIn(t) == Cardinality({j \in 1 .. Len(opens) : opens[j][1] = t})

\* __init__ and _build, lines 267-366 (Stop is built disabled at line 354, the
\* progress bar with ttk's defaults at line 364): the state before any session
GuiInit ==
    /\ warm_btn = "normal"
    /\ stop_btn = "disabled"
    /\ has_stop_flag = FALSE
    /\ stop_flag = FALSE
    /\ pendingDisable = 0
    /\ targets = <<>>
    /\ budget = 0
    /\ dry = FALSE
    /\ fs = [t \in Instances |-> <<>>]
    /\ pc = "idle"
    /\ ti = 1
    /\ files = <<>>
    /\ fi = 1
    /\ warmed = 0
    /\ warmed_total = 0
    /\ progress_max = 100
    /\ progress_value = 0
    /\ progressed = 0
    /\ rtotal = 0
    /\ log = <<>>
    /\ opens = <<>>
    /\ completed = 0
    /\ stopAt = NoStop
    /\ faults = 0
    /\ order = <<>>
    /\ sessions = 0
    /\ launched = "none"

\* No call of iter_files is under way.
EnumIdle ==
    /\ eroot = <<>>
    /\ etree = {}
    /\ patterns = <<>>
    /\ pidx = 1
    /\ pending = {}
    /\ repeats = 0
    /\ seen = {}
    /\ yielded = <<>>
    /\ epc = "idle"

\* ------------------------------------------------------------ the UI thread

\* _warm_selected, lines 429-442 and 515: the button is the only way in, so
\* the handler runs only while the button is enabled; an empty selection
\* returns at line 433 and changes nothing.  The tree under each selected
\* directory is drawn here and stays as it is for the session.  One session is
\* followed, the first after construction (_stop_flag does not exist yet):
\* lines 440-458 set up every later session in the same way.
BeginSession(sel, lim, d, content) ==
    /\ targets' = Ascending(sel)
    /\ budget' = lim
    /\ dry' = d
    /\ fs' = [t \in Instances |-> IF t \in sel THEN content[t] ELSE <<>>]
    /\ sessions' = sessions + 1
    /\ warm_btn' = "disabled"
    /\ stop_btn' = "normal"
    /\ has_stop_flag' = TRUE
    /\ stop_flag' = FALSE
    /\ pc' = "precount"
    /\ ti' = 1
    /\ files' = <<>>
    /\ fi' = 1
    /\ warmed' = 0
    /\ warmed_total' = 0
    /\ rtotal' = 0
    /\ log' = <<>>
    /\ opens' = <<>>
    /\ completed' = 0
    /\ stopAt' = NoStop
    /\ faults' = 0
    /\ order' = <<>>
    /\ launched' = "none"
    /\ UNCHANGED << pendingDisable, progressVars >>
    /\ UNCHANGED << enumVars, listVars >>

WarmSelected ==
    /\ warm_btn = "normal"
    /\ ~has_stop_flag
    /\ \E sel \in (SUBSET Instances) \ {{}}, lim \in Budgets, d \in BOOLEAN :
         \E content \in [sel -> FileLists] : BeginSession(sel, lim, d, content)

\* _warm_selected on one selected instance whose files come in any order,
\* with the budget that lets most files through.
WarmSelectedRank ==
    /\ warm_btn = "normal"
    /\ ~has_stop_flag
    /\ \E d \in BOOLEAN, lst \in RankLists :
         BeginSession({1}, MaxBudget, d, [t \in {1} |-> lst])

\* _warm_selected, the first time or again after a session: whenever the
\* button is enabled.  The sessions are small ones, on one instance that is
\* empty or holds one file.
WarmSelectedAgain ==
    /\ warm_btn = "normal"
    /\ sessions < MaxSessions
    /\ \E lst \in {<<>>, <<PoolFile(2)>>} :
         BeginSession({1}, MaxBudget, FALSE, [t \in {1} |-> lst])

\* _stop, lines 425-427, the command of the Stop button.
Stop ==
    /\ stop_btn = "normal"
    /\ stop_flag' = (IF has_stop_flag THEN TRUE ELSE stop_flag)
    /\ stopAt' = IF has_stop_flag /\ ~stop_flag /\ pc # "idle"
                 THEN [set |-> TRUE, t |-> ti, k |-> completed,
                       at |-> IF pc \in {"open", "read"} THEN pc ELSE "between"]
                 ELSE stopAt
    /\ UNCHANGED << warm_btn, stop_btn, has_stop_flag, pendingDisable, faults,
                    inputVars, pc, ti, files, fi, warmed, warmed_total,
                    progressVars, rtotal, log, opens, completed >>
    /\ UNCHANGED << order, launched, enumVars, listVars >>

\* ------------------------------------------------------------ the worker

\* line 462
TargetCancelled == stop_flag

\* A cancellation check made for the first file of a target only.
FileCancelledFirstOnly == stop_flag /\ fi = 1

\* line 485
FileCancelled == stop_flag

\* A budget check against the bytes of the current target only.
BudgetReachedInTarget == warmed >= budget

\* A budget check that lets a file start when the total equals the budget.
BudgetReachedStrict == warmed_total > budget

\* line 491
BudgetReached == warmed_total >= budget

\* A worker without the dry-run branch.
DryRunIgnored == FALSE

\* A dry-run branch placed after the budget check.
DryRunWithinBudget == dry /\ ~BudgetReached

\* line 488
DryRun == dry

\* A chunk loop that also ends when the session is cancelled.
ReadDoneOrCancelled == rtotal = files[fi].size \/ stop_flag

\* lines 68-70: read returns no data at the end of the file
ReadDone == rtotal = files[fi].size

\* A worker whose finally block also runs the launch action.
RaiseThenLaunch == pc' = "launch"

\* lines 445 and 511: an exception leaves the try block, which has no except
\* clause, for the finally block; the lines between are not run.
Raise == pc' = "finally"

\* lines 446-458: the counting pass over the targets
Precount ==
    /\ pc = "precount"
    /\ progress_max' = Max(1, SumLen(fs, targets))
    /\ progressed' = 0
    /\ order' = order \o [k \in 1 .. Len(targets) |-> Did("count", targets[k], 0)]
    /\ pc' = "target"
    /\ UNCHANGED << uiVars, inputVars, ti, files, fi, warmed, warmed_total,
                    progress_value, rtotal, log, opens, completed, stopAt,
                    faults >>
    /\ UNCHANGED << launched, enumVars, listVars >>

\* lines 460-481: the head of the loop over the targets, up to the sort
TargetStep ==
    /\ pc = "target"
    /\ IF ti > Len(targets) \/ TargetCancelled
       THEN /\ pc' = "summary"
            /\ UNCHANGED << files, fi, warmed, log, completed, faults, order >>
       ELSE /\ log' = Append(log, Event("start", targets[ti], 0, NoFile, 0))
            /\ order' = Append(order, Did("enum", targets[ti], 0))
            /\ \/ /\ files' = SortFiles(fs[targets[ti]])
                  /\ warmed' = 0
                  /\ fi' = 1
                  /\ completed' = 0
                  /\ pc' = "file"
                  /\ UNCHANGED faults
               \/ \* p.stat() raises in the sort key: the worker ends
                  /\ fs[targets[ti]] # <<>>
                  /\ MayFail
                  /\ faults' = faults + 1
                  /\ Raise
                  /\ UNCHANGED << files, fi, warmed, completed >>
    /\ UNCHANGED << uiVars, inputVars, ti, warmed_total, progressVars, rtotal,
                    opens, stopAt >>
    /\ UNCHANGED << launched, enumVars, listVars >>

\* A loop that logs the end of a target and takes the same target again.
EndTargetRepeat(lg) ==
    /\ log' = Append(lg, Event("done", targets[ti], 0, NoFile, warmed))
    /\ ti' = ti
    /\ pc' = "target"

\* line 505 and the step to the next target
EndTarget(lg) ==
    /\ log' = Append(lg, Event("done", targets[ti], 0, NoFile, warmed))
    /\ ti' = ti + 1
    /\ pc' = "target"

\* lines 482-486: the head of the loop over the files
FileStep ==
    /\ pc = "file"
    /\ IF fi > Len(files)
       THEN /\ EndTarget(log)
            /\ UNCHANGED progress_value
       ELSE /\ progress_value' = progressed
            /\ IF FileCancelled
               THEN EndTarget(log)
               ELSE /\ pc' = "size"
                    /\ UNCHANGED << log, ti >>
    /\ UNCHANGED << uiVars, inputVars, files, fi, warmed, warmed_total,
                    progress_max, progressed, rtotal, opens, completed, stopAt,
                    faults >>
    /\ UNCHANGED << order, launched, enumVars, listVars >>

\* lines 487-493: the size, the dry-run branch and the budget check
SizeStep ==
    /\ pc = "size"
    /\ \/ \* fpath.stat() raises: the worker ends
          /\ MayFail
          /\ faults' = faults + 1
          /\ Raise
          /\ UNCHANGED << log, ti, fi >>
       \/ /\ UNCHANGED faults
          /\ IF DryRun
             THEN /\ log' = Append(log, Event("plan", targets[ti], fi,
                                              files[fi].name, files[fi].size))
                  /\ fi' = fi + 1
                  /\ pc' = "file"
                  /\ UNCHANGED ti
             ELSE IF BudgetReached
             THEN /\ EndTarget(Append(log, Event("limit", targets[ti], fi,
                                                 NoFile, budget)))
                  /\ UNCHANGED fi
             ELSE /\ pc' = "open"
                  /\ UNCHANGED << log, ti, fi >>
    /\ UNCHANGED << uiVars, inputVars, files, warmed, warmed_total,
                    progressVars, rtotal, opens, completed, stopAt >>
    /\ UNCHANGED << order, launched, enumVars, listVars >>

\* A handler that adds the bytes read before the failure to the totals.
FileErrorCountsPartial ==
    /\ MayFail
    /\ faults' = faults + 1
    /\ log' = Append(log, Event("error", targets[ti], fi, files[fi].name, 0))
    /\ progressed' = progressed + 1
    /\ fi' = fi + 1
    /\ pc' = "file"
    /\ warmed' = warmed + rtotal
    /\ warmed_total' = warmed_total + rtotal

\* lines 500-503: the handler of a failed warm_file, then the next file
FileError ==
    /\ MayFail
    /\ faults' = faults + 1
    /\ log' = Append(log, Event("error", targets[ti], fi, files[fi].name, 0))
    /\ progressed' = progressed + 1
    /\ fi' = fi + 1
    /\ pc' = "file"
    /\ UNCHANGED << warmed, warmed_total >>

\* lines 495 and 63-66: warm_file is called and opens the file
OpenStep ==
    /\ pc = "open"
    /\ \/ /\ opens' = Append(opens, <<targets[ti], fi>>)
          /\ order' = Append(order, Did("open", targets[ti], fi))
          /\ rtotal' = 0
          /\ pc' = "read"
          /\ UNCHANGED << log, progressed, fi, warmed, warmed_total, faults >>
       \/ \* path.stat() or open() raises
          /\ FileError
          /\ UNCHANGED << opens, rtotal, order >>
    /\ UNCHANGED << uiVars, inputVars, ti, files, progress_max, progress_value,
                    completed, stopAt >>
    /\ UNCHANGED << launched, enumVars, listVars >>

\* lines 67-72 and 496-499, 503: one read of the chunk loop; at the end of
\* the file warm_file returns and the worker accounts for the file
ReadStep ==
    /\ pc = "read"
    /\ \/ /\ ReadDone
          /\ warmed' = warmed + rtotal
          /\ warmed_total' = warmed_total + rtotal
          /\ log' = Append(log, Event("warmed", targets[ti], fi,
                                      files[fi].name, rtotal))
          /\ progressed' = progressed + 2
          /\ fi' = fi + 1
          /\ pc' = "file"
          /\ completed' = completed + 1
          /\ order' = Append(order, Did("close", targets[ti], fi))
          /\ UNCHANGED << rtotal, faults >>
       \/ /\ ~ReadDone
          /\ \E n \in 1 .. Min(CHUNK, files[fi].size - rtotal) :
                rtotal' = rtotal + n
          /\ UNCHANGED << warmed, warmed_total, log, progressed, fi, pc,
                          completed, faults, order >>
       \/ \* f.read raises: the with statement of line 65 closes the file
          /\ FileError
          /\ completed' = completed + 1
          /\ order' = Append(order, Did("close", targets[ti], fi))
          /\ UNCHANGED rtotal
    /\ UNCHANGED << uiVars, inputVars, ti, files, progress_max, progress_value,
                    opens, stopAt >>
    /\ UNCHANGED << launched, enumVars, listVars >>

\* lines 507-509: the summary line, and the progress bar filled
Summary ==
    /\ pc = "summary"
    /\ log' = Append(log, Event("alldone", 0, 0, NoFile, warmed_total))
    /\ progress_value' = progress_max
    /\ pc' = "launch"
    /\ UNCHANGED << uiVars, inputVars, ti, files, fi, warmed, warmed_total,
                    progress_max, progressed, rtotal, opens, completed, stopAt,
                    faults >>
    /\ UNCHANGED << order, launched, enumVars, listVars >>

\* line 510 and _maybe_launch, lines 240-265: the box unticked ("off"), no
\* command template ("nocmd"), or the command of the first target started,
\* Popen raising or not; _maybe_launch lets no exception out.
MaybeLaunch ==
    /\ pc = "launch"
    /\ \E outcome \in {"off", "nocmd", "started", "failed"} :
         /\ launched' = outcome
         /\ log' = IF outcome = "off" THEN log
                    ELSE IF outcome = "nocmd"
                    THEN Append(log, Event("nocmd", 0, 0, NoFile, 0))
                    ELSE IF outcome = "started"
                    THEN Append(log, Event("launch", targets[1], 0, NoFile, 0))
                    ELSE Append(Append(log, Event("launch", targets[1], 0, NoFile, 0)),
                                Event("launchfailed", 0, 0, NoFile, 0))
    /\ pc' = "finally"
    /\ UNCHANGED << uiVars, inputVars, ti, files, fi, warmed, warmed_total,
                    progressVars, rtotal, opens, completed, stopAt, faults,
                    order >>
    /\ UNCHANGED << enumVars, listVars >>

\* line 512: the worker's finally block enables "Warm Selected"
FinallyWarmBtn ==
    /\ pc = "finally"
    /\ warm_btn' = "normal"
    /\ pendingDisable' = pendingDisable + 1
    /\ pc' = "idle"
    /\ UNCHANGED << stop_btn, has_stop_flag, stop_flag, inputVars, ti, files,
                    fi, warmed, warmed_total, progressVars, rtotal, log, opens,
                    completed, stopAt, faults >>
    /\ UNCHANGED << order, launched, enumVars, listVars >>

\* line 513: the exiting worker disables "Stop", and is gone
FinallyStopBtn ==
    /\ pendingDisable > 0
    /\ stop_btn' = "disabled"
    /\ pendingDisable' = pendingDisable - 1
    /\ UNCHANGED << warm_btn, has_stop_flag, stop_flag, inputVars, pc, ti,
                    files, fi, warmed, warmed_total, progressVars, rtotal, log,
                    opens, completed, stopAt, faults >>
    /\ UNCHANGED << order, launched, enumVars, listVars >>

\* ------------------------------------------------------------ list_instances

\* The names probed at line 146, in the order any() probes them.
MARKERS == << <<"mods">>, <<"config">>, <<"resourcepacks">>, <<"", "minecraft">> >>

\* A child of the root: what child.is_dir() does ("dir", "file", or "raises"
\* for a stat that fails with an error is_dir does not swallow), and what
\* (child / sub).exists() does for each of MARKERS ("yes", "no", "raises").
Child(d, subs) == [is_dir |-> d, subs |-> subs]

ChildPool ==
    { Child("file", <<"no", "no", "no", "no">>),
      Child("raises", <<"no", "no", "no", "no">>),
      Child("dir", <<"no", "no", "no", "no">>),
      Child("dir", <<"yes", "no", "no", "no">>),
      Child("dir", <<"no", "raises", "yes", "no">>),
      Child("dir", <<"no", "no", "yes", "raises">>) }

\* All sequences of length at most n over the set S.
RECURSIVE SeqsUpTo(_, _)
SeqsUpTo(S, n) ==
    IF n = 0 THEN {<<>>}
    ELSE LET shorter == SeqsUpTo(S, n - 1)
         IN  shorter \cup
             UNION {{Append(s, x) : x \in S} :
                    s \in {q \in shorter : Len(q) = n - 1}}

\* line 146: any() over a generator stops at the first True, and lets the
\* first exception through: "yes", "no" or "raises"
RECURSIVE AnyExists(_)
AnyExists(subs) ==
    IF subs = <<>> THEN "no"
    ELSE IF Head(subs) = "no" THEN AnyExists(Tail(subs))
    ELSE Head(subs)

ListIdle ==
    /\ lchildren = <<>>
    /\ lidx = 1
    /\ instances = <<>>
    /\ lpc = "idle"

\* lines 139-141: a call list_instances(root_dir) on some root
ListInit ==
    /\ GuiInit
    /\ EnumIdle
    /\ lchildren \in SeqsUpTo(ChildPool, MaxChildren)
    /\ lidx = 1
    /\ instances = <<>>
    /\ lpc = "iterdir"

\* line 143: sorted(root_dir.iterdir()) lists the root, or raises into the
\* handler of lines 149-150, after which line 151 returns
ListIterdir ==
    /\ lpc = "iterdir"
    /\ \/ lpc' = "child"
       \/ lpc' = "recovered"
    /\ UNCHANGED << lchildren, lidx, instances >>
    /\ UNCHANGED << sessionVars, enumVars >>

\* lines 143-148: one turn of the loop, or its end and the return of line 151;
\* lines 149-151: a probe that raises ends the loop and the list is returned
ListChild ==
    /\ lpc = "child"
    /\ IF lidx > Len(lchildren)
       THEN /\ lpc' = "returned"
            /\ UNCHANGED << lidx, instances >>
       ELSE LET child == lchildren[lidx]
                found == AnyExists(child.subs)
            IN  IF child.is_dir = "raises" \/ (child.is_dir = "dir" /\ found = "raises")
                THEN /\ lpc' = "recovered"
                     /\ UNCHANGED << lidx, instances >>
                ELSE /\ instances' = IF child.is_dir = "dir" /\ found = "yes"
                                     THEN Append(instances, lidx)
                                     ELSE instances
                     /\ lidx' = lidx + 1
                     /\ UNCHANGED lpc
    /\ UNCHANGED lchildren
    /\ UNCHANGED << sessionVars, enumVars >>

ListNext == ListIterdir \/ ListChild

SpecList == ListInit /\ [][ListNext]_vars

\* ------------------------------------------------------------ iter_files

\* lines 28-31
DEFAULT_PATTERNS ==
    << <<"*", "jar">>, <<"*", "zip">>, <<"*", "json">>, <<"*", "cfg">>,
       <<"*", "toml">>, <<"*", "ini">>, <<"*", "mixins", "json">>,
       <<"*", "mcmeta">>, <<"*", "png">>, <<"*", "jpg">>, <<"*", "ogg">>,
       <<"*", "wav">>, <<"*", "txt">> >>

\* lines 33-35
SKIP_DIRNAMES ==
    { <<"", "git">>, <<"", "gradle">>, <<"", "idea">>, <<"logs">>,
      <<"crash-reports">>, <<"screenshots">>, <<"shaderpacks">> }

\* The roots iter_files is called with: one of them lies below a directory
\* that has a skip-directory name.
Roots == { << <<"inst">> >>, << <<"logs">>, <<"inst">> >> }

\* The patterns the bounded pattern sequences are made of.
PatternPool ==
    { <<"*", "jar">>, <<"*", "json">>, <<"*", "mixins", "json">>, <<"*", "txt">> }

PatternSeqs == DistinctSeqs(PatternPool, MaxPatterns) \cup {DEFAULT_PATTERNS}

\* An entry below the root: its path relative to the root, what a stat that
\* follows links finds there ("file", "dir", "broken" for a dangling link,
\* "denied" for a stat that raises), and the path it resolves to when that is
\* not the path itself (a link, or a path through a linked directory):
\* relative to the root, or absolute when ext is set.
Entry(rel, kind, to, ext) == [rel |-> rel, kind |-> kind, to |-> to, ext |-> ext]

EntryPool ==
    { Entry(<< <<"mods">>, <<"A", "jar">> >>, "file", <<>>, FALSE),
      Entry(<< <<"logs">>, <<"x", "jar">> >>, "file",
            << <<"mods">>, <<"A", "jar">> >>, FALSE),
      Entry(<< <<"mods">>, <<"l", "jar">> >>, "file",
            << <<"outside">>, <<"O", "jar">> >>, TRUE),
      Entry(<< <<"config">>, <<"m", "mixins", "json">> >>, "file", <<>>, FALSE),
      Entry(<< <<"logs">>, <<"ignored", "txt">> >>, "file", <<>>, FALSE),
      Entry(<< <<"mods">>, <<"d", "jar">> >>, "dir", <<>>, FALSE),
      Entry(<< <<"mods">>, <<"b", "jar">> >>, "broken", <<>>, FALSE),
      Entry(<< <<"mods">>, <<"p", "jar">> >>, "denied", <<>>, FALSE),
      Entry(<< <<"modlink">>, <<"A", "jar">> >>, "file",
            << <<"mods">>, <<"A", "jar">> >>, FALSE) }

\* A tree holds the file that an entry of it resolves to below the root.
Consistent(tree) ==
    \A e \in tree :
        (e.to # <<>> /\ ~e.ext) =>
            \E f \in tree : f.rel = e.to /\ f.to = <<>> /\ f.kind = "file"

Trees == {t \in SUBSET EntryPool : Cardinality(t) <= MaxEntries /\ Consistent(t)}

\* line 40: the path rglob reports for an entry
RawPath(e) == eroot \o e.rel

\* line 40: fnmatch of the entry's name against "*" followed by literal
\* components
Match(pattern, name) ==
    /\ Len(name) >= Len(pattern)
    /\ \A k \in 0 .. Len(pattern) - 2 :
          name[Len(name) - k] = pattern[Len(pattern) - k]

\* line 40: root.rglob(pattern), whatever the kind of the entry
RGlob(pattern) == {e \in etree : Match(pattern, Last(e.rel))}

\* line 42: p.is_file(), which follows links
IsFile(e) == e.kind = "file"

\* line 44: p.resolve()
Resolve(e) ==
    IF e.to = <<>> THEN RawPath(e)
    ELSE IF e.ext THEN e.to
    ELSE eroot \o e.to

\* A key that is the path as globbed.
KeyUnresolved(e) == RawPath(e)

\* line 44: key = (p.resolve() if p.exists() else p); p exists when is_file
\* has answered True
Key(e) == IF e.kind \in {"file", "dir"} THEN Resolve(e) ELSE RawPath(e)

\* A skip check of the segments below the root only.
HasSkipPartBelowRoot(path) ==
    \E j \in Len(eroot) + 1 .. Len(path) : path[j] \in SKIP_DIRNAMES

\* line 48: any(part in SKIP_DIRNAMES for part in p.parts)
HasSkipPart(path) == \E j \in 1 .. Len(path) : path[j] \in SKIP_DIRNAMES

\* A generator that yields the resolved key.
YieldKey(e) == Key(e)

\* line 50: yield p
YieldValue(e) == RawPath(e)

\* line 38: a call iter_files(root, patterns) on some tree
EnumInit ==
    /\ GuiInit
    /\ ListIdle
    /\ eroot \in Roots
    /\ etree \in Trees
    /\ patterns \in PatternSeqs
    /\ pidx = 1
    /\ pending = {}
    /\ repeats = 0
    /\ seen = {}
    /\ yielded = <<>>
    /\ epc = "pattern"

\* line 39: the next pattern, or the end of the generator
EnumPattern ==
    /\ epc = "pattern"
    /\ IF pidx > Len(patterns)
       THEN /\ epc' = "done"
            /\ UNCHANGED pending
       ELSE /\ pending' = RGlob(patterns[pidx])
            /\ epc' = "match"
    /\ UNCHANGED << eroot, etree, patterns, pidx, repeats, seen, yielded >>
    /\ UNCHANGED << sessionVars, listVars >>

\* line 40: rglob has no more match for the pattern
EnumPatternEnd ==
    /\ epc = "match"
    /\ pending = {}
    /\ pidx' = pidx + 1
    /\ epc' = "pattern"
    /\ UNCHANGED << eroot, etree, patterns, pending, repeats, seen, yielded >>
    /\ UNCHANGED << sessionVars, listVars >>

\* lines 41-52: the body of the loop for the match e
EnumBody(e) ==
    IF e.kind = "denied" \/ ~IsFile(e)
    THEN UNCHANGED << seen, yielded >>
    ELSE IF Key(e) \in seen
    THEN UNCHANGED << seen, yielded >>
    ELSE /\ seen' = seen \cup {Key(e)}
         /\ IF HasSkipPart(RawPath(e))
            THEN UNCHANGED yielded
            ELSE yielded' = Append(yielded, YieldValue(e))

\* lines 40-52: rglob reports a match, in any order, and the body runs on it
EnumMatch ==
    /\ epc = "match"
    /\ \E e \in pending :
          /\ EnumBody(e)
          /\ \/ /\ pending' = pending \ {e}
                /\ UNCHANGED repeats
             \/ \* rglob reports this match again later
                /\ repeats < MaxRepeats
                /\ repeats' = repeats + 1
                /\ UNCHANGED pending
    /\ UNCHANGED << eroot, etree, patterns, pidx, epc >>
    /\ UNCHANGED << sessionVars, listVars >>

EnumNext ==
    \/ EnumPattern
    \/ EnumPatternEnd
    \/ EnumMatch

SpecEnum == EnumInit /\ [][EnumNext]_vars

\* ------------------------------------------------------------ the session
Init == GuiInit /\ EnumIdle /\ ListIdle

Next ==
    \/ WarmSelected
    \/ Stop
    \/ Precount
    \/ TargetStep
    \/ FileStep
    \/ SizeStep
    \/ OpenStep
    \/ ReadStep
    \/ Summary
    \/ MaybeLaunch
    \/ FinallyWarmBtn
    \/ FinallyStopBtn

Spec == Init /\ [][Next]_vars

\* The worker's steps, common to every specification of the session.
Worker ==
    \/ Precount
    \/ TargetStep
    \/ FileStep
    \/ SizeStep
    \/ OpenStep
    \/ ReadStep
    \/ Summary
    \/ MaybeLaunch
    \/ FinallyWarmBtn
    \/ FinallyStopBtn

\* One session on a target whose files come in any order.
NextRank == WarmSelectedRank \/ Stop \/ Worker

SpecRank == Init /\ [][NextRank]_vars

\* Sessions one after the other, each started as soon as the button allows.
NextUI == WarmSelectedAgain \/ Stop \/ Worker

SpecUI == Init /\ [][NextUI]_vars

\* ------------------------------------------------------------ log queries
EventsOf(kind) == SelectSeq(log, LAMBDA e : e.ev = kind)

Logged(kind) == \E j \in 1 .. Len(log) : log[j].ev = kind

\* Bytes of the file warmed last, 0 when none was.
LastWarmedBytes ==
    LET w == EventsOf("warmed") IN IF w = <<>> THEN 0 ELSE Last(w).n

\* The plan lines of a dry run over target t: one per ranked file, in rank order.
PlanOf(t) ==
    LET ranked == SortFiles(fs[t])
    IN  [i \in 1 .. Len(ranked) |->
            Event("plan", t, i, ranked[i].name, ranked[i].size)]

RECURSIVE PlanOfAll(_)
PlanOfAll(ts) == IF ts = <<>> THEN <<>> ELSE PlanOf(Head(ts)) \o PlanOfAll(Tail(ts))

\* ------------------------------------------------------------ claims

\* C1: at every point of a session the bytes warmed so far are at most the
\* budget plus the bytes of the file warmed last, and the total without that
\* last file is below the budget: only one file, started below the budget,
\* can carry the total past it.
C1_BudgetOvershootOneFile ==
    /\ warmed_total <= budget + LastWarmedBytes
    /\ Logged("warmed") => warmed_total - LastWarmedBytes < budget
    /\ ~Logged("warmed") => warmed_total = 0

C1_Witness ==
    /\ ~dry
    /\ pc = "finally"
    /\ Logged("alldone")
    /\ budget > 0
    /\ warmed_total > budget
    /\ Len(EventsOf("warmed")) >= 2

\* C2: in a non-dry-run session, the budget check of a file made while the
\* total is at or over the budget logs the limit line and leaves the target's
\* file loop; no file is opened once the limit line is logged or while the
\* total is at or over the budget; with budget 0 no file is ever opened.
C2_LimitStopsOpens ==
    /\ [][(pc = "size" /\ ~dry /\ warmed_total >= budget
            /\ pc' # "size" /\ pc' # "finally")
          => /\ pc' = "target"
             /\ Len(log') = Len(log) + 2
             /\ log'[Len(log) + 1] = Event("limit", targets[ti], fi, NoFile, budget)
             /\ opens' = opens]_vars
    /\ [][Len(opens') > Len(opens)
          => ~Logged("limit") /\ warmed_total < budget]_vars
    /\ [](budget = 0 => opens = <<>>)

C2_Witness ==
    /\ ~dry
    /\ pc = "finally"
    /\ Len(EventsOf("limit")) = 2
    /\ Len(opens) = 1
    /\ warmed_total >= budget
    /\ \A t \in {targets[j] : j \in 1 .. Len(targets)} : Len(fs[t]) = 2

\* C3: once the cancellation flag is set, K opened files of the current
\* target having ended, at most K+1 files of that target are ever opened and
\* none of any later target.
C3_CancelOpensAtMostOneMore ==
    stopAt.set =>
        \A j \in 1 .. Len(targets) :
            /\ j = stopAt.t => OpensIn(targets[j]) <= stopAt.k + 1
            /\ j > stopAt.t => OpensIn(targets[j]) = 0

C3_Witness ==
    /\ stopAt.set
    /\ stopAt.at = "open"
    /\ pc = "finally"
    /\ Logged("alldone")
    /\ Len(targets) = 2
    /\ stopAt.t = 1
    /\ OpensIn(targets[1]) = stopAt.k + 1
    /\ Len(fs[targets[1]]) > stopAt.k + 1
    /\ Len(fs[targets[2]]) > 0

\* C4: a read that has begun ends only at the end of the file or with an I/O
\* error, whatever the cancellation flag and the total are: the worker leaves
\* the chunk loop either with every byte of the file read, which it then
\* counts, or through the error handler.
C4_ReadRunsToEnd ==
    [][(pc = "read" /\ pc' # "read")
       => \/ /\ rtotal = files[fi].size
             /\ warmed_total' = warmed_total + files[fi].size
             /\ Last(log').ev = "warmed"
          \/ /\ Last(log').ev = "error"
             /\ warmed_total' = warmed_total]_vars

C4_Witness ==
    /\ stopAt.set
    /\ stopAt.at = "read"
    /\ completed = stopAt.k + 1
    /\ pc = "file"
    /\ log # <<>>
    /\ Last(log).ev = "warmed"
    /\ Last(log).n = 3
    /\ warmed_total > budget

\* C5: in a dry-run session no file is opened and the session total and the
\* per-target total stay 0, whatever the targets, the budget and the moment
\* of a cancellation are.
C5_DryRunReadsNothing ==
    dry => /\ opens = <<>>
           /\ warmed_total = 0
           /\ warmed = 0
           /\ rtotal = 0
           /\ pc \notin {"open", "read"}

C5_Witness ==
    /\ dry
    /\ pc = "finally"
    /\ Logged("alldone")
    /\ budget > 0
    /\ stop_flag
    /\ Len(EventsOf("plan")) >= 2

\* C6: a dry-run session that is not cancelled and reaches its summary has
\* logged exactly one plan line for every ranked file of every target, in
\* target order and rank order, whatever the budget is.
C6_DryRunPlansEveryFile ==
    (dry /\ ~stop_flag /\ Logged("alldone"))
        => EventsOf("plan") = PlanOfAll(targets)

C6_Witness ==
    /\ dry
    /\ ~stop_flag
    /\ Logged("alldone")
    /\ budget = 0
    /\ Len(targets) = 2
    /\ Len(EventsOf("plan")) = 4

\* ------------------------------------------------------------ iter_files claims
EntryAt(path) == CHOOSE e \in etree : RawPath(e) = path

\* The resolved identity of a yielded path.
ResolvedOf(path) == Resolve(EntryAt(path))

MatchesSome(e) == \E j \in 1 .. Len(patterns) : Match(patterns[j], Last(e.rel))

YieldedIds == {ResolvedOf(yielded[j]) : j \in 1 .. Len(yielded)}

\* C7: when the enumeration has ended, every regular file below the root
\* that matches a pattern and has no skip-directory segment has its resolved
\* identity among the yielded paths.
C7_EveryEligibleFileYielded ==
    epc = "done" =>
        \A e \in etree :
            (IsFile(e) /\ MatchesSome(e) /\ ~HasSkipPart(RawPath(e)))
                => Resolve(e) \in YieldedIds

\* C8: no yielded path has a segment that is a skip-directory name.
C8_NoSkipSegmentYielded ==
    \A j \in 1 .. Len(yielded) :
        \A k \in 1 .. Len(yielded[j]) : yielded[j][k] \notin SKIP_DIRNAMES

C8_Witness ==
    /\ epc = "done"
    /\ yielded # <<>>
    /\ \E e \in etree :
          IsFile(e) /\ MatchesSome(e) /\ HasSkipPart(RawPath(e))

\* C9: one call never yields two paths with the same resolved identity.
C9_NoDuplicateResolved ==
    \A i, j \in 1 .. Len(yielded) :
        i # j => ResolvedOf(yielded[i]) # ResolvedOf(yielded[j])

C9_Witness ==
    /\ epc = "done"
    /\ Len(yielded) = 2
    /\ repeats = 1
    /\ \E e, f \in etree :
          /\ e # f
          /\ Resolve(e) = Resolve(f)
          /\ ~HasSkipPart(RawPath(e)) /\ ~HasSkipPart(RawPath(f))
          /\ MatchesSome(e) /\ MatchesSome(f)
    /\ \E e \in etree :
          /\ IsFile(e) /\ ~HasSkipPart(RawPath(e))
          /\ Cardinality({j \in 1 .. Len(patterns) :
                            Match(patterns[j], Last(e.rel))}) = 2

\* C10: every yielded path is a path below the root.
C10_YieldedBelowRoot ==
    \A j \in 1 .. Len(yielded) :
        /\ Len(yielded[j]) > Len(eroot)
        /\ SubSeq(yielded[j], 1, Len(eroot)) = eroot

C10_Witness ==
    /\ epc = "done"
    /\ \E j \in 1 .. Len(yielded) :
          LET id == ResolvedOf(yielded[j])
          IN  Len(id) < Len(eroot) \/ SubSeq(id, 1, Len(eroot)) # eroot

\* ------------------------------------------------------------ the rank

\* The class of a file as the rank's rule states it: by the suffix of the
\* lower-cased name.
ClassOf(f) ==
    LET ext == IF Len(f.name) >= 2 THEN Lower(Last(f.name)) ELSE ""
    IN  CASE ext = "jar" -> 0
          [] ext = "zip" -> 1
          [] ext \in {"json", "toml", "cfg", "ini"} -> 2
          [] ext \in {"png", "ogg", "wav"} -> 3
          [] OTHER -> 4

\* s is ordered by class ascending, then size descending.
RankOrdered(s) ==
    \A i, j \in 1 .. Len(s) :
        i < j => \/ ClassOf(s[i]) < ClassOf(s[j])
                 \/ ClassOf(s[i]) = ClassOf(s[j]) /\ s[i].size >= s[j].size

\* The worker is in the loop over the ranked files of a target.
InFileLoop == pc \in {"file", "size", "open", "read"}

\* The log lines about single files of target t, in log order.
FileEvents(t) ==
    SelectSeq(log, LAMBDA e : e.t = t /\ e.ev \in {"plan", "warmed", "error"})

\* The position of file x in the sequence s that holds it.
PositionIn(s, x) == CHOOSE k \in 1 .. Len(s) : s[k] = x

\* C11: the ranked files of a target are the enumerated files ordered by
\* class ascending (by case-insensitive suffix: .jar 0, .zip 1,
\* .json/.toml/.cfg/.ini 2, .png/.ogg/.wav 3, others 4), then by size
\* descending, so every .jar precedes every .png and within a class a larger
\* file is never after a smaller one; and the files are planned, warmed or
\* failed in exactly this order: the k-th line about a file of the target is
\* about the k-th ranked file, and the files are opened in rank order.
C11_RankedThenWarmedInOrder ==
    InFileLoop =>
        LET t == targets[ti]
            ev == FileEvents(t)
        IN  /\ Len(files) = Len(fs[t])
            /\ {files[k] : k \in 1 .. Len(files)} = {fs[t][k] : k \in 1 .. Len(fs[t])}
            /\ RankOrdered(files)
            /\ \A i, j \in 1 .. Len(files) :
                  (ClassOf(files[i]) = 0 /\ ClassOf(files[j]) = 3) => i < j
            /\ \A k \in 1 .. Len(ev) :
                  ev[k].i = k /\ ev[k].f = files[k].name
            /\ \A j, k \in 1 .. Len(opens) :
                  (j < k /\ opens[j][1] = t /\ opens[k][1] = t)
                      => opens[j][2] < opens[k][2]

C11_Witness ==
    /\ pc = "file"
    /\ fs[1] = << [name |-> <<"c", "png">>, size |-> 3],
                  [name |-> <<"B", "JAR">>, size |-> 3] >>
    /\ files = << [name |-> <<"B", "JAR">>, size |-> 3],
                  [name |-> <<"c", "png">>, size |-> 3] >>
    /\ Len(EventsOf("warmed")) = 2
    /\ opens = << <<1, 1>>, <<1, 2>> >>

\* C12: the rank is stable and idempotent: ranking the ranked files again
\* changes nothing, files that come already ordered by class and size are
\* left as they come, and files of equal class and size keep the order in
\* which they were enumerated.
C12_RankStableIdempotent ==
    InFileLoop =>
        LET t == targets[ti]
        IN  /\ SortFiles(files) = files
            /\ RankOrdered(fs[t]) => files = fs[t]
            /\ \A i, j \in 1 .. Len(fs[t]) :
                  (/\ i < j
                   /\ ClassOf(fs[t][i]) = ClassOf(fs[t][j])
                   /\ fs[t][i].size = fs[t][j].size)
                      => PositionIn(files, fs[t][i]) < PositionIn(files, fs[t][j])

C12_Witness ==
    /\ InFileLoop
    /\ fs[1] = << [name |-> <<"b", "jar">>, size |-> 1],
                  [name |-> <<"a", "jar">>, size |-> 1] >>
    /\ files = fs[1]

\* ------------------------------------------------------------ failures

\* The sum of the numbers printed by the lines of s.
RECURSIVE SumN(_)
SumN(s) == IF s = <<>> THEN 0 ELSE Head(s).n + SumN(Tail(s))

\* The "Warmed" lines of target t.
WarmedIn(t) == SelectSeq(log, LAMBDA e : e.ev = "warmed" /\ e.t = t)

\* A line of kind k is added to the log by the step.
Logs(kind) == Len(log') = Len(log) + 1 /\ Last(log').ev = kind

\* C13: a file whose open or read fails is logged as an error of that file
\* and adds nothing to the totals - the session total and the target's total
\* are the bytes of the files read to their end, the bytes read before a
\* failure are not counted - and the worker goes on with the next file of
\* the same target.
C13_ReadFailureIsolated ==
    /\ [](warmed_total = SumN(EventsOf("warmed")))
    /\ [](InFileLoop => warmed = SumN(WarmedIn(targets[ti])))
    /\ [][Logs("error") =>
            /\ pc \in {"open", "read"}
            /\ Last(log').t = targets[ti]
            /\ Last(log').i = fi
            /\ Last(log').f = files[fi].name
            /\ warmed' = warmed
            /\ warmed_total' = warmed_total
            /\ pc' = "file"
            /\ fi' = fi + 1
            /\ ti' = ti
            /\ files' = files]_vars

C13_Witness ==
    /\ completed = 2
    /\ warmed_total = 3
    /\ opens = << <<1, 1>>, <<1, 2>> >>
    /\ \E j \in 1 .. Len(log) - 1 :
          /\ log[j].ev = "error" /\ log[j].i = 1
          /\ log[j + 1].ev = "warmed" /\ log[j + 1].i = 2 /\ log[j + 1].n = 3

\* The worker of the session has left its try block.
WorkerLeft == sessions > 0 /\ pc \in {"finally", "idle"}

\* C14: no failure about a single file ends the session early: a worker
\* leaves only after the summary line, also when the size of an enumerated
\* file cannot be fetched during the ranking or in the loop over the files.
C14_StatFailureNonFatal ==
    WorkerLeft => Logged("alldone")

\* C15: a session that has ended has logged exactly one summary line, and
\* the total it prints is the sum of the bytes of the files warmed, which is
\* the sum of the totals of the "Done" lines of the targets.
C15_OneSummaryWithTrueTotal ==
    WorkerLeft =>
        /\ Len(EventsOf("alldone")) = 1
        /\ EventsOf("alldone")[1].n = SumN(EventsOf("warmed"))
        /\ EventsOf("alldone")[1].n = SumN(EventsOf("done"))

\* ------------------------------------------------------------ sequencing

\* The position of target t in the selection.
TargetPos(t) == CHOOSE k \in 1 .. Len(targets) : targets[k] = t

\* Number of entries of kind op in the history.
Count(op) == Cardinality({a \in 1 .. Len(order) : order[a].op = op})

\* Files opened by warm_file and not closed yet.
OpenHandles == Count("open") - Count("close")

\* The targets started so far are the first of the selection, in its order.
StartedInOrder ==
    LET st == EventsOf("start")
    IN  /\ Len(st) <= Len(targets)
        /\ \A k \in 1 .. Len(st) : st[k].t = targets[k]

\* No entry of one of the kinds ops about the target after t's comes before
\* an open of a file of target t.
OpensBefore(ops) ==
    \A a, b \in 1 .. Len(order) :
        (/\ order[a].op \in ops
         /\ order[b].op = "open"
         /\ TargetPos(order[a].t) = TargetPos(order[b].t) + 1) => b < a

\* C16 as stated: the targets are processed in the order given, one after
\* the other, at most one file is open at any moment, and every open of a
\* file of target i comes before any enumeration of target i+1.
C16_OpensBeforeNextEnumeration ==
    /\ StartedInOrder
    /\ OpenHandles \in {0, 1}
    /\ OpensBefore({"count", "enum"})

\* C16, amended: the targets are processed in the order given, one after the
\* other, at most one file is open at any moment (a file is opened only when
\* the file before it is closed), and every open of a file of target i comes
\* before the main loop's enumeration of target i+1 (line 465); the counting
\* pass of lines 453-456 enumerates every target before any file is opened.
C16_OpensBeforeNextTargetStarts ==
    /\ StartedInOrder
    /\ OpenHandles \in {0, 1}
    /\ OpensBefore({"enum"})
    /\ \A a, b \in 1 .. Len(order) :
          (order[a].op = "count" /\ order[b].op # "count") => a < b
    /\ pc \notin {"idle", "precount"} => Count("count") = Len(targets)

C16_Witness ==
    /\ Len(targets) = 2
    /\ pc = "launch"
    /\ \E a, b, c \in 1 .. Len(order) :
          /\ a < b /\ b < c
          /\ order[a] = Did("close", targets[1], 2)
          /\ order[b] = Did("enum", targets[2], 0)
          /\ order[c] = Did("open", targets[2], 1)

\* ------------------------------------------------------------ progress

\* C18: once the bar's maximum is set, the progress counter and the value
\* shown are at most the maximum, and the counter is the number of files
\* warmed or failed so far: one for each.
C18_ProgressCountsFiles ==
    (sessions > 0 /\ pc # "precount") =>
        /\ progressed <= progress_max
        /\ progress_value <= progress_max
        /\ progressed = Len(EventsOf("warmed")) + Len(EventsOf("error"))

\* ------------------------------------------------------------ launch

\* C20: the launch action is called at most once in a session, by a worker
\* that has logged the summary as its last line and is past the loops, so
\* never while a file is read; it has been called in every session whose
\* worker left after the summary, cancelled or stopped by the budget or not,
\* and in no session whose worker left without summary.
C20_LaunchOnceAfterSummary ==
    /\ [](launched # "none" => Logged("alldone") /\ pc \in {"finally", "idle"})
    /\ [](WorkerLeft => (launched # "none" <=> Logged("alldone")))
    /\ [](Len(EventsOf("launch")) <= 1)
    /\ [][launched' # launched /\ launched' # "none" =>
            /\ launched = "none"
            /\ pc = "launch"
            /\ Last(log).ev = "alldone"
            /\ OpenHandles = 0]_vars

C20_Witness ==
    /\ pc = "idle"
    /\ launched = "started"
    /\ stopAt.set /\ stopAt.at = "read"
    /\ Len(targets) = 2 /\ Len(EventsOf("start")) = 1
    /\ Len(EventsOf("launch")) = 1

\* ------------------------------------------------------------ instances

\* C17: a call of list_instances in which listing the root or probing a
\* child failed returns the empty list, never the instances found before
\* the failure.
C17_FailureGivesEmptyList ==
    lpc = "recovered" => instances = <<>>

\* ------------------------------------------------------------ controls

\* Worker threads alive: the one in its try block or at line 512, and those
\* that have line 513 still to run.
WorkersAlive == (IF pc = "idle" THEN 0 ELSE 1) + pendingDisable

\* C19: at most one worker is alive; while a session's worker runs, "Warm
\* Selected" is disabled and "Stop" is enabled; and when no worker is alive
\* after a session, "Warm Selected" is enabled and "Stop" disabled.
C19_OneWorkerControlsRecover ==
    /\ WorkersAlive <= 1
    /\ pc # "idle" => warm_btn = "disabled" /\ stop_btn = "normal"
    /\ (sessions > 0 /\ WorkersAlive = 0) =>
          warm_btn = "normal" /\ stop_btn = "disabled"

====
